---- MODULE Spec2Model ----
(***************************************************************************)
(* UpdatesManager of the state keeper                                      *)
(* (core/lib/zksync_core/src/state_keeper/updates/mod.rs).                 *)
(*                                                                         *)
(* The manager owns one L1BatchUpdates (the miniblocks already sealed into *)
(* the pending L1 batch), one MiniblockUpdates (the open miniblock) and a  *)
(* StorageWritesDeduplicator.  The two accumulator types and the           *)
(* deduplicator live in files outside updates/mod.rs; they are modelled    *)
(* here from their documented contract.                                    *)
(*                                                                         *)
(* Optional values (Option<T>, "no value returned yet") are sequences of   *)
(* length 0 or 1.  Hashes are symbolic: a hash is the tuple of the values  *)
(* it was computed from, so that two hashes are equal exactly when their   *)
(* inputs are.                                                             *)
(***************************************************************************)
EXTENDS Integers, Sequences, FiniteSets, TLC

\* ------------------------------------------------------------------------
\* Bounds of the model
\* ------------------------------------------------------------------------

\* most extend_from_* calls in one behaviour
MaxTxs == 2

\* most push_miniblock calls in one behaviour
MaxPushes == 2

\* most seal commands handed to persistence in one behaviour
MaxCommands == 2

\* ------------------------------------------------------------------------
\* Values supplied by the collaborators
\* ------------------------------------------------------------------------

\* BlockGasCount { commit, prove, execute }
BlockGasCount(c, p, e) == [commit |-> c, prove |-> p, execute |-> e]

\* BlockGasCount::default()
ZeroGasCount == BlockGasCount(0, 0, 0)

\* impl Add for BlockGasCount
GasAdd(a, b) ==
    BlockGasCount(a.commit + b.commit, a.prove + b.prove, a.execute + b.execute)

\* ExecutionMetrics, reduced to the two counters the model distinguishes
ExecutionMetrics(g, w) == [gas_used |-> g, storage_writes |-> w]

\* ExecutionMetrics::default()
ZeroMetrics == ExecutionMetrics(0, 0)

\* impl Add for ExecutionMetrics
MetricsAdd(a, b) ==
    ExecutionMetrics(a.gas_used + b.gas_used, a.storage_writes + b.storage_writes)

\* Transaction: its hash and its bootloader encoding size
Transaction(h, size) == [hash |-> h, bootloader_encoding_size |-> size]

\* VmExecutionResultAndLogs: the storage logs (key, value) and the events
VmExecutionResultAndLogs(storage_logs, events) ==
    [logs |-> [storage_logs |-> storage_logs, events |-> events]]

\* the arguments of the extend_from_executed_transaction calls of the driver
ExecutedInputs ==
    { [tx |-> Transaction(10, 100),
       tx_execution_result |-> VmExecutionResultAndLogs(<< <<1, 7>> >>, <<"e1">>),
       compressed_bytecodes |-> <<>>,
       tx_l1_gas_this_tx |-> BlockGasCount(1, 0, 0),
       execution_metrics |-> ExecutionMetrics(3, 1),
       call_traces |-> <<>>],
      [tx |-> Transaction(11, 60),
       tx_execution_result |->
           VmExecutionResultAndLogs(<< <<1, 8>>, <<2, 9>> >>, <<>>),
       compressed_bytecodes |-> <<"bc">>,
       tx_l1_gas_this_tx |-> BlockGasCount(0, 2, 1),
       execution_metrics |-> ExecutionMetrics(5, 2),
       call_traces |-> <<"call">>] }

\* the arguments of the extend_from_fictive_transaction calls of the driver
FictiveInputs ==
    { [result |-> VmExecutionResultAndLogs(<< <<3, 1>> >>, <<>>),
       l1_gas_count |-> BlockGasCount(0, 1, 0),
       execution_metrics |-> ExecutionMetrics(1, 1)] }

\* L1BatchEnv: the batch-open parameters
L1BatchEnvs ==
    { [number |-> 1, timestamp |-> 1, fee_account |-> "fee_a",
       fee_input |-> [l1_gas_price |-> 4, fair_l2_gas_price |-> 2],
       first_l2_block |-> [timestamp |-> 1, number |-> 1, prev_block_hash |-> <<0>>,
                           max_virtual_blocks_to_create |-> 3]],
      [number |-> 7, timestamp |-> 4, fee_account |-> "fee_b",
       fee_input |-> [l1_gas_price |-> 6, fair_l2_gas_price |-> 3],
       first_l2_block |-> [timestamp |-> 4, number |-> 30, prev_block_hash |-> <<9>>,
                           max_virtual_blocks_to_create |-> 2]] }

\* SystemEnv: protocol version and base system contracts
SystemEnvs ==
    { [version |-> 20,
       base_system_smart_contracts |-> [bootloader |-> "boot", default_aa |-> "aa"]] }

\* the (bridge address, pre_insert_txs) arguments of seal_miniblock_command
BridgeAddresses == {"bridge_a", "bridge_b"}

\* ------------------------------------------------------------------------
\* State
\* ------------------------------------------------------------------------

VARIABLES
    batch_timestamp,
    fee_account_address,
    batch_fee_input,
    base_fee_per_gas,
    base_system_contract_hashes,
    protocol_version,
    l1_batch,
    miniblock,
    storage_writes_deduplicator,
    command,    \* the MiniblockSealCommand last returned, <<>> before the first
    cursor,     \* the IoCursor last returned since the last mutating call
    last_op,    \* the operation that produced this state
    trace,      \* the mutating calls made since construction, in order
    folded,     \* the numbers of the miniblocks folded into l1_batch, in order
    issued      \* the commands the driver handed to persistence, in order

fixed == <<batch_timestamp, fee_account_address, batch_fee_input, base_fee_per_gas,
           base_system_contract_hashes, protocol_version>>

manager == <<fixed, l1_batch, miniblock, storage_writes_deduplicator>>

vars == <<manager, command, cursor, last_op, trace, folded, issued>>

\* MiniblockParams { timestamp, virtual_blocks } the driver hands to
\* push_miniblock: a timestamp later than the open miniblock's, one virtual
\* block
MiniblockParamsSet == { [timestamp |-> miniblock.timestamp + 1, virtual_blocks |-> 1] }

\* ------------------------------------------------------------------------
\* MiniblockUpdates (updates/miniblock_updates.rs): the open miniblock
\* ------------------------------------------------------------------------

\* MiniblockUpdates::new
MiniblockUpdates_new(timestamp, number, prev_block_hash, virtual_blocks, version) ==
    [number |-> number,
     timestamp |-> timestamp,
     prev_block_hash |-> prev_block_hash,
     virtual_blocks |-> virtual_blocks,
     protocol_version |-> version,
     executed_transactions |-> <<>>,
     l1_gas_count |-> ZeroGasCount,
     block_execution_metrics |-> ZeroMetrics,
     txs_encoding_size |-> 0]

\* the record kept for one transaction; transaction is <<>> for a fictive one
TransactionExecutionResult(transaction, result, gas, metrics, bytecodes, traces) ==
    [transaction |-> transaction,
     execution_result |-> result,
     l1_gas |-> gas,
     execution_metrics |-> metrics,
     compressed_bytecodes |-> bytecodes,
     call_traces |-> traces]

\* MiniblockUpdates::extend_from_executed_transaction
MiniblockUpdates_extend_from_executed_transaction(mb, tx, result, gas, metrics, bytecodes, traces) ==
    [mb EXCEPT
        !.executed_transactions =
            Append(@, TransactionExecutionResult(<<tx>>, result, gas, metrics,
                                                 bytecodes, traces)),
        !.l1_gas_count = GasAdd(@, gas),
        !.block_execution_metrics = MetricsAdd(@, metrics),
        !.txs_encoding_size = @ + tx.bootloader_encoding_size]

\* MiniblockUpdates::extend_from_fictive_transaction: no transaction payload
MiniblockUpdates_extend_from_fictive_transaction(mb, result, gas, metrics) ==
    [mb EXCEPT
        !.executed_transactions =
            Append(@, TransactionExecutionResult(<<>>, result, gas, metrics,
                                                 <<>>, <<>>)),
        !.l1_gas_count = GasAdd(@, gas),
        !.block_execution_metrics = MetricsAdd(@, metrics)]

\* MiniblockUpdates::get_miniblock_hash: a function of the number, the
\* timestamp, the previous hash and the ordered transaction sequence
get_miniblock_hash(mb) ==
    <<mb.number, mb.timestamp, mb.prev_block_hash,
      [i \in 1..Len(mb.executed_transactions) |->
          mb.executed_transactions[i].transaction]>>

\* ------------------------------------------------------------------------
\* L1BatchUpdates (updates/l1_batch_updates.rs): the sealed miniblocks
\* ------------------------------------------------------------------------

\* L1BatchUpdates::new
L1BatchUpdates_new(number) ==
    [number |-> number,
     executed_transactions |-> <<>>,
     l1_gas_count |-> ZeroGasCount,
     block_execution_metrics |-> ZeroMetrics,
     txs_encoding_size |-> 0]

\* L1BatchUpdates::extend_from_sealed_miniblock
extend_from_sealed_miniblock(batch, mb) ==
    [batch EXCEPT
        !.executed_transactions = @ \o mb.executed_transactions,
        !.l1_gas_count = GasAdd(@, mb.l1_gas_count),
        !.block_execution_metrics = MetricsAdd(@, mb.block_execution_metrics),
        !.txs_encoding_size = @ + mb.txs_encoding_size]

\* ------------------------------------------------------------------------
\* StorageWritesDeduplicator: the apply calls it received, in order
\* ------------------------------------------------------------------------

\* StorageWritesDeduplicator::new
StorageWritesDeduplicator_new == <<>>

\* StorageWritesDeduplicator::apply
StorageWritesDeduplicator_apply(dedup, storage_logs) == Append(dedup, storage_logs)

\* ------------------------------------------------------------------------
\* UpdatesManager (updates/mod.rs)
\* ------------------------------------------------------------------------

\* multivm::utils::get_batch_base_fee: a function of the batch environment
\* and the protocol version
get_batch_base_fee(l1_batch_env, version) ==
    <<"base_fee", l1_batch_env.fee_input, version>>

\* BaseSystemContracts::hashes
hashes(base_system_smart_contracts) == <<"hashes", base_system_smart_contracts>>

\* the calls recorded in trace
Call(op, args) == [op |-> op, args |-> args]

\* new numbering the first miniblock with the batch number
new_MiniblockNumberFromBatch(l1_batch_env, system_env) ==
    /\ batch_timestamp = l1_batch_env.timestamp
    /\ fee_account_address = l1_batch_env.fee_account
    /\ batch_fee_input = l1_batch_env.fee_input
    /\ base_fee_per_gas = get_batch_base_fee(l1_batch_env, system_env.version)
    /\ protocol_version = system_env.version
    /\ base_system_contract_hashes = hashes(system_env.base_system_smart_contracts)
    /\ l1_batch = L1BatchUpdates_new(l1_batch_env.number)
    /\ miniblock = MiniblockUpdates_new(
                       l1_batch_env.first_l2_block.timestamp,
                       l1_batch_env.number,
                       l1_batch_env.first_l2_block.prev_block_hash,
                       l1_batch_env.first_l2_block.max_virtual_blocks_to_create,
                       system_env.version)
    /\ storage_writes_deduplicator = StorageWritesDeduplicator_new
    /\ command = <<>>
    /\ folded = <<>>
    /\ issued = <<>>
    /\ cursor = <<>>
    /\ last_op = "new"
    /\ trace = <<Call("new", [l1_batch_env |-> l1_batch_env,
                              system_env |-> system_env])>>

\* UpdatesManager::new: the state after construction
new(l1_batch_env, system_env) ==
    /\ batch_timestamp = l1_batch_env.timestamp
    /\ fee_account_address = l1_batch_env.fee_account
    /\ batch_fee_input = l1_batch_env.fee_input
    /\ base_fee_per_gas = get_batch_base_fee(l1_batch_env, system_env.version)
    /\ protocol_version = system_env.version
    /\ base_system_contract_hashes = hashes(system_env.base_system_smart_contracts)
    /\ l1_batch = L1BatchUpdates_new(l1_batch_env.number)
    /\ miniblock = MiniblockUpdates_new(
                       l1_batch_env.first_l2_block.timestamp,
                       l1_batch_env.first_l2_block.number,
                       l1_batch_env.first_l2_block.prev_block_hash,
                       l1_batch_env.first_l2_block.max_virtual_blocks_to_create,
                       system_env.version)
    /\ storage_writes_deduplicator = StorageWritesDeduplicator_new
    /\ command = <<>>
    /\ folded = <<>>
    /\ issued = <<>>
    /\ cursor = <<>>
    /\ last_op = "new"
    /\ trace = <<Call("new", [l1_batch_env |-> l1_batch_env,
                              system_env |-> system_env])>>

\* io_cursor reporting the hash the open miniblock was chained to instead of
\* the open miniblock's own hash
IoCursor_PrevBlockHash ==
    [next_miniblock |-> miniblock.number + 1,
     prev_miniblock_hash |-> miniblock.prev_block_hash,
     prev_miniblock_timestamp |-> miniblock.timestamp,
     l1_batch |-> l1_batch.number]

\* io_cursor announcing the open miniblock's own number as the next one
IoCursor_AnnouncesOpenNumber ==
    [next_miniblock |-> miniblock.number,
     prev_miniblock_hash |-> get_miniblock_hash(miniblock),
     prev_miniblock_timestamp |-> miniblock.timestamp,
     l1_batch |-> l1_batch.number]

\* the value UpdatesManager::io_cursor returns
IoCursor ==
    [next_miniblock |-> miniblock.number + 1,
     prev_miniblock_hash |-> get_miniblock_hash(miniblock),
     prev_miniblock_timestamp |-> miniblock.timestamp,
     l1_batch |-> l1_batch.number]

\* io_cursor that moves the manager on to the miniblock it announces
io_cursor_Advances ==
    /\ cursor' = <<IoCursor>>
    /\ miniblock' = [miniblock EXCEPT !.number = @ + 1]
    /\ last_op' = "io_cursor"
    /\ UNCHANGED <<fixed, l1_batch, storage_writes_deduplicator, command, trace, folded, issued>>

\* UpdatesManager::io_cursor (&self)
io_cursor ==
    /\ cursor' = <<IoCursor>>
    /\ last_op' = "io_cursor"
    /\ UNCHANGED <<manager, command, trace, folded, issued>>

\* seal_miniblock_command counting the open miniblock's transactions into
\* first_tx_index
MiniblockSealCommand_PendingIndex(l2_erc20_bridge_addr, pre_insert_txs) ==
    [l1_batch_number |-> l1_batch.number,
     miniblock |-> miniblock,
     first_tx_index |-> Len(l1_batch.executed_transactions)
                            + Len(miniblock.executed_transactions),
     fee_account_address |-> fee_account_address,
     fee_input |-> batch_fee_input,
     base_fee_per_gas |-> base_fee_per_gas,
     base_system_contracts_hashes |-> base_system_contract_hashes,
     protocol_version |-> <<protocol_version>>,
     l2_erc20_bridge_addr |-> l2_erc20_bridge_addr,
     pre_insert_txs |-> pre_insert_txs]

\* seal_miniblock_command mixing up its two addresses: the bridge address
\* goes where the fee account goes
MiniblockSealCommand_BridgeAsFeeAccount(l2_erc20_bridge_addr, pre_insert_txs) ==
    [l1_batch_number |-> l1_batch.number,
     miniblock |-> miniblock,
     first_tx_index |-> Len(l1_batch.executed_transactions),
     fee_account_address |-> l2_erc20_bridge_addr,
     fee_input |-> batch_fee_input,
     base_fee_per_gas |-> base_fee_per_gas,
     base_system_contracts_hashes |-> base_system_contract_hashes,
     protocol_version |-> <<protocol_version>>,
     l2_erc20_bridge_addr |-> l2_erc20_bridge_addr,
     pre_insert_txs |-> pre_insert_txs]

\* the value UpdatesManager::seal_miniblock_command returns
MiniblockSealCommand(l2_erc20_bridge_addr, pre_insert_txs) ==
    [l1_batch_number |-> l1_batch.number,
     miniblock |-> miniblock,
     first_tx_index |-> Len(l1_batch.executed_transactions),
     fee_account_address |-> fee_account_address,
     fee_input |-> batch_fee_input,
     base_fee_per_gas |-> base_fee_per_gas,
     base_system_contracts_hashes |-> base_system_contract_hashes,
     protocol_version |-> <<protocol_version>>,
     l2_erc20_bridge_addr |-> l2_erc20_bridge_addr,
     pre_insert_txs |-> pre_insert_txs]

\* what is kept of a command c handed to persistence: the batch number, the
\* miniblock copy and first_tx_index, with the number of calls of the trace
\* that came before the command was built
IssuedCommand(c) ==
    [l1_batch_number |-> c.l1_batch_number,
     miniblock |-> c.miniblock,
     first_tx_index |-> c.first_tx_index,
     calls_before |-> Len(trace)]

\* seal_miniblock_command that also folds the open miniblock into the batch
seal_miniblock_command_Folds(l2_erc20_bridge_addr, pre_insert_txs) ==
    /\ command' = <<MiniblockSealCommand(l2_erc20_bridge_addr, pre_insert_txs)>>
    /\ l1_batch' = extend_from_sealed_miniblock(l1_batch, miniblock)
    /\ last_op' = "seal_miniblock_command"
    /\ UNCHANGED <<fixed, miniblock, storage_writes_deduplicator, cursor, trace>>
    /\ folded' = Append(folded, miniblock.number)

\* UpdatesManager::seal_miniblock_command (&self)
seal_miniblock_command(l2_erc20_bridge_addr, pre_insert_txs) ==
    /\ command' = <<MiniblockSealCommand(l2_erc20_bridge_addr, pre_insert_txs)>>
    /\ last_op' = "seal_miniblock_command"
    /\ UNCHANGED <<manager, cursor, trace, folded>>

\* extend_from_executed_transaction writing the record into the batch
\* accumulator instead of the open miniblock
extend_from_executed_transaction_IntoBatch(tx, tx_execution_result, compressed_bytecodes, tx_l1_gas_this_tx, execution_metrics, call_traces) ==
    /\ storage_writes_deduplicator' =
           StorageWritesDeduplicator_apply(storage_writes_deduplicator,
                                           tx_execution_result.logs.storage_logs)
    /\ l1_batch' =
           extend_from_sealed_miniblock(
               l1_batch,
               MiniblockUpdates_extend_from_executed_transaction(
                   MiniblockUpdates_new(0, 0, <<>>, 0, protocol_version),
                   tx, tx_execution_result, tx_l1_gas_this_tx,
                   execution_metrics, compressed_bytecodes, call_traces))
    /\ cursor' = <<>>
    /\ last_op' = "extend_from_executed_transaction"
    /\ trace' = Append(trace, Call("extend_from_executed_transaction",
                  [tx |-> tx, tx_execution_result |-> tx_execution_result,
                   compressed_bytecodes |-> compressed_bytecodes,
                   tx_l1_gas_this_tx |-> tx_l1_gas_this_tx,
                   execution_metrics |-> execution_metrics,
                   call_traces |-> call_traces]))
    /\ UNCHANGED <<fixed, miniblock, command, folded, issued>>

\* extend_from_executed_transaction on a manager whose last command shares
\* the open miniblock instead of holding a copy of it
extend_from_executed_transaction_SharedCommand(tx, tx_execution_result, compressed_bytecodes, tx_l1_gas_this_tx, execution_metrics, call_traces) ==
    /\ storage_writes_deduplicator' =
           StorageWritesDeduplicator_apply(storage_writes_deduplicator,
                                           tx_execution_result.logs.storage_logs)
    /\ miniblock' =
           MiniblockUpdates_extend_from_executed_transaction(
               miniblock, tx, tx_execution_result, tx_l1_gas_this_tx,
               execution_metrics, compressed_bytecodes, call_traces)
    /\ command' = IF Len(command) = 1 /\ command[1].miniblock = miniblock
                  THEN <<[command[1] EXCEPT !.miniblock = miniblock']>>
                  ELSE command
    /\ cursor' = <<>>
    /\ last_op' = "extend_from_executed_transaction"
    /\ trace' = Append(trace, Call("extend_from_executed_transaction",
                  [tx |-> tx, tx_execution_result |-> tx_execution_result,
                   compressed_bytecodes |-> compressed_bytecodes,
                   tx_l1_gas_this_tx |-> tx_l1_gas_this_tx,
                   execution_metrics |-> execution_metrics,
                   call_traces |-> call_traces]))
    /\ UNCHANGED <<fixed, l1_batch, folded, issued>>

\* UpdatesManager::extend_from_executed_transaction
extend_from_executed_transaction(tx, tx_execution_result, compressed_bytecodes, tx_l1_gas_this_tx, execution_metrics, call_traces) ==
    /\ storage_writes_deduplicator' =
           StorageWritesDeduplicator_apply(storage_writes_deduplicator,
                                           tx_execution_result.logs.storage_logs)
    /\ miniblock' =
           MiniblockUpdates_extend_from_executed_transaction(
               miniblock, tx, tx_execution_result, tx_l1_gas_this_tx,
               execution_metrics, compressed_bytecodes, call_traces)
    /\ cursor' = <<>>
    /\ last_op' = "extend_from_executed_transaction"
    /\ trace' = Append(trace, Call("extend_from_executed_transaction",
                  [tx |-> tx, tx_execution_result |-> tx_execution_result,
                   compressed_bytecodes |-> compressed_bytecodes,
                   tx_l1_gas_this_tx |-> tx_l1_gas_this_tx,
                   execution_metrics |-> execution_metrics,
                   call_traces |-> call_traces]))
    /\ UNCHANGED <<fixed, l1_batch, command, folded, issued>>

\* extend_from_fictive_transaction that feeds the deduplicator only
extend_from_fictive_transaction_DedupOnly(result, l1_gas_count, execution_metrics) ==
    /\ storage_writes_deduplicator' =
           StorageWritesDeduplicator_apply(storage_writes_deduplicator,
                                           result.logs.storage_logs)
    /\ cursor' = <<>>
    /\ last_op' = "extend_from_fictive_transaction"
    /\ trace' = Append(trace, Call("extend_from_fictive_transaction",
                  [result |-> result, l1_gas_count |-> l1_gas_count,
                   execution_metrics |-> execution_metrics]))
    /\ UNCHANGED <<fixed, l1_batch, miniblock, command, folded, issued>>

\* UpdatesManager::extend_from_fictive_transaction
extend_from_fictive_transaction(result, l1_gas_count, execution_metrics) ==
    /\ storage_writes_deduplicator' =
           StorageWritesDeduplicator_apply(storage_writes_deduplicator,
                                           result.logs.storage_logs)
    /\ miniblock' =
           MiniblockUpdates_extend_from_fictive_transaction(
               miniblock, result, l1_gas_count, execution_metrics)
    /\ cursor' = <<>>
    /\ last_op' = "extend_from_fictive_transaction"
    /\ trace' = Append(trace, Call("extend_from_fictive_transaction",
                  [result |-> result, l1_gas_count |-> l1_gas_count,
                   execution_metrics |-> execution_metrics]))
    /\ UNCHANGED <<fixed, l1_batch, command, folded, issued>>

\* push_miniblock that opens the new miniblock and drops the old one
push_miniblock_NoFold(miniblock_params) ==
    /\ miniblock' = MiniblockUpdates_new(miniblock_params.timestamp,
                                         miniblock.number + 1,
                                         get_miniblock_hash(miniblock),
                                         miniblock_params.virtual_blocks,
                                         protocol_version)
    /\ cursor' = <<>>
    /\ last_op' = "push_miniblock"
    /\ trace' = Append(trace, Call("push_miniblock", miniblock_params))
    /\ UNCHANGED <<fixed, l1_batch, storage_writes_deduplicator, command, folded, issued>>

\* push_miniblock that folds the open miniblock but keeps it open
push_miniblock_KeepsOpen(miniblock_params) ==
    /\ l1_batch' = extend_from_sealed_miniblock(l1_batch, miniblock)
    /\ miniblock' = [miniblock EXCEPT !.number = @ + 1,
                                      !.timestamp = miniblock_params.timestamp,
                                      !.virtual_blocks = miniblock_params.virtual_blocks,
                                      !.prev_block_hash = get_miniblock_hash(miniblock)]
    /\ cursor' = <<>>
    /\ last_op' = "push_miniblock"
    /\ trace' = Append(trace, Call("push_miniblock", miniblock_params))
    /\ UNCHANGED <<fixed, storage_writes_deduplicator, command>>
    /\ folded' = Append(folded, miniblock.number)
    /\ UNCHANGED issued

\* push_miniblock that starts a new deduplicator with the new miniblock
push_miniblock_ResetsDeduplicator(miniblock_params) ==
    /\ miniblock' = MiniblockUpdates_new(miniblock_params.timestamp,
                                         miniblock.number + 1,
                                         get_miniblock_hash(miniblock),
                                         miniblock_params.virtual_blocks,
                                         protocol_version)
    /\ l1_batch' = extend_from_sealed_miniblock(l1_batch, miniblock)
    /\ storage_writes_deduplicator' = StorageWritesDeduplicator_new
    /\ cursor' = <<>>
    /\ last_op' = "push_miniblock"
    /\ trace' = Append(trace, Call("push_miniblock", miniblock_params))
    /\ folded' = Append(folded, miniblock.number)
    /\ UNCHANGED issued
    /\ UNCHANGED <<fixed, command>>

\* push_miniblock chaining the new miniblock to the hash the closed one was
\* chained to
push_miniblock_StalePrevHash(miniblock_params) ==
    /\ miniblock' = MiniblockUpdates_new(miniblock_params.timestamp,
                                         miniblock.number + 1,
                                         miniblock.prev_block_hash,
                                         miniblock_params.virtual_blocks,
                                         protocol_version)
    /\ l1_batch' = extend_from_sealed_miniblock(l1_batch, miniblock)
    /\ cursor' = <<>>
    /\ last_op' = "push_miniblock"
    /\ trace' = Append(trace, Call("push_miniblock", miniblock_params))
    /\ folded' = Append(folded, miniblock.number)
    /\ UNCHANGED issued
    /\ UNCHANGED <<fixed, storage_writes_deduplicator, command>>

\* push_miniblock giving the new miniblock the number of the closed one
push_miniblock_SameNumber(miniblock_params) ==
    /\ miniblock' = MiniblockUpdates_new(miniblock_params.timestamp,
                                         miniblock.number,
                                         get_miniblock_hash(miniblock),
                                         miniblock_params.virtual_blocks,
                                         protocol_version)
    /\ l1_batch' = extend_from_sealed_miniblock(l1_batch, miniblock)
    /\ cursor' = <<>>
    /\ last_op' = "push_miniblock"
    /\ trace' = Append(trace, Call("push_miniblock", miniblock_params))
    /\ folded' = Append(folded, miniblock.number)
    /\ UNCHANGED issued
    /\ UNCHANGED <<fixed, storage_writes_deduplicator, command>>

\* push_miniblock replacing the batch's contents by the closed miniblock's
push_miniblock_Overwrites(miniblock_params) ==
    /\ miniblock' = MiniblockUpdates_new(miniblock_params.timestamp,
                                         miniblock.number + 1,
                                         get_miniblock_hash(miniblock),
                                         miniblock_params.virtual_blocks,
                                         protocol_version)
    /\ l1_batch' = extend_from_sealed_miniblock(L1BatchUpdates_new(l1_batch.number),
                                              miniblock)
    /\ cursor' = <<>>
    /\ last_op' = "push_miniblock"
    /\ trace' = Append(trace, Call("push_miniblock", miniblock_params))
    /\ folded' = Append(folded, miniblock.number)
    /\ UNCHANGED issued
    /\ UNCHANGED <<fixed, storage_writes_deduplicator, command>>

\* push_miniblock that does nothing for a miniblock without transactions
push_miniblock_SkipsEmpty(miniblock_params) ==
    /\ Len(miniblock.executed_transactions) > 0
    /\ miniblock' = MiniblockUpdates_new(miniblock_params.timestamp,
                                         miniblock.number + 1,
                                         get_miniblock_hash(miniblock),
                                         miniblock_params.virtual_blocks,
                                         protocol_version)
    /\ l1_batch' = extend_from_sealed_miniblock(l1_batch, miniblock)
    /\ cursor' = <<>>
    /\ last_op' = "push_miniblock"
    /\ trace' = Append(trace, Call("push_miniblock", miniblock_params))
    /\ folded' = Append(folded, miniblock.number)
    /\ UNCHANGED issued
    /\ UNCHANGED <<fixed, storage_writes_deduplicator, command>>

\* UpdatesManager::push_miniblock
push_miniblock(miniblock_params) ==
    LET new_miniblock_updates ==
            MiniblockUpdates_new(miniblock_params.timestamp,
                                 miniblock.number + 1,
                                 get_miniblock_hash(miniblock),
                                 miniblock_params.virtual_blocks,
                                 protocol_version)
        old_miniblock_updates == miniblock
    IN  /\ miniblock' = new_miniblock_updates
        /\ l1_batch' = extend_from_sealed_miniblock(l1_batch, old_miniblock_updates)
        /\ cursor' = <<>>
        /\ last_op' = "push_miniblock"
        /\ trace' = Append(trace, Call("push_miniblock", miniblock_params))
        /\ UNCHANGED <<fixed, storage_writes_deduplicator, command>>
        /\ folded' = Append(folded, old_miniblock_updates.number)
        /\ UNCHANGED issued

\* pending_executed_transactions_len counting the sealed miniblocks only
pending_executed_transactions_len_BatchOnly == Len(l1_batch.executed_transactions)

\* UpdatesManager::pending_executed_transactions_len
pending_executed_transactions_len ==
    Len(l1_batch.executed_transactions) + Len(miniblock.executed_transactions)

\* UpdatesManager::pending_l1_gas_count
pending_l1_gas_count == GasAdd(l1_batch.l1_gas_count, miniblock.l1_gas_count)

\* UpdatesManager::pending_execution_metrics
pending_execution_metrics ==
    MetricsAdd(l1_batch.block_execution_metrics, miniblock.block_execution_metrics)

\* UpdatesManager::pending_txs_encoding_size
pending_txs_encoding_size == l1_batch.txs_encoding_size + miniblock.txs_encoding_size

\* ------------------------------------------------------------------------
\* The driver: any interleaving of the manager's operations
\* ------------------------------------------------------------------------

\* the extend_from_* calls made so far
IsApply(c) ==
    c.op \in {"extend_from_executed_transaction", "extend_from_fictive_transaction"}

\* number of extend_from_* calls in a trace
NumApplies(t) == Cardinality({i \in 1..Len(t) : IsApply(t[i])})

\* number of push_miniblock calls in a trace
NumPushes(t) == Cardinality({i \in 1..Len(t) : t[i].op = "push_miniblock"})

Init == \E l1_batch_env \in L1BatchEnvs, system_env \in SystemEnvs :
            new(l1_batch_env, system_env)

ApplyExecuted ==
    /\ NumApplies(trace) < MaxTxs
    /\ \E inp \in ExecutedInputs :
           extend_from_executed_transaction(
               inp.tx, inp.tx_execution_result, inp.compressed_bytecodes,
               inp.tx_l1_gas_this_tx, inp.execution_metrics, inp.call_traces)

ApplyFictive ==
    /\ NumApplies(trace) < MaxTxs
    /\ \E inp \in FictiveInputs :
           extend_from_fictive_transaction(inp.result, inp.l1_gas_count,
                                           inp.execution_metrics)

PushMiniblock ==
    /\ NumPushes(trace) < MaxPushes
    /\ \E params \in MiniblockParamsSet : push_miniblock(params)

SealMiniblockCommand ==
    /\ \E addr \in BridgeAddresses, pre_insert_txs \in BOOLEAN :
           seal_miniblock_command(addr, pre_insert_txs)
    /\ UNCHANGED issued

ReadIoCursor == io_cursor

Next ==
    \/ ApplyExecuted
    \/ ApplyFictive
    \/ PushMiniblock
    \/ SealMiniblockCommand
    \/ ReadIoCursor

Spec == Init /\ [][Next]_vars

\* the driver building a seal command and handing it to the persistence
\* collaborator
HandOffSealCommand ==
    /\ Len(issued) < MaxCommands
    /\ \E addr \in BridgeAddresses, pre_insert_txs \in BOOLEAN :
           seal_miniblock_command(addr, pre_insert_txs)
    /\ issued' = Append(issued, IssuedCommand(command'[1]))

NextHandOff ==
    \/ ApplyExecuted
    \/ ApplyFictive
    \/ PushMiniblock
    \/ HandOffSealCommand

\* the same driver, with every command it builds kept in issued
SpecHandOff == Init /\ [][NextHandOff]_vars

\* ------------------------------------------------------------------------
\* What the trace of calls says the accumulators should hold
\* ------------------------------------------------------------------------

\* the record an extend_from_* call of the trace adds
RecordOf(c) ==
    IF c.op = "extend_from_executed_transaction"
    THEN TransactionExecutionResult(<<c.args.tx>>, c.args.tx_execution_result,
                                    c.args.tx_l1_gas_this_tx, c.args.execution_metrics,
                                    c.args.compressed_bytecodes, c.args.call_traces)
    ELSE TransactionExecutionResult(<<>>, c.args.result, c.args.l1_gas_count,
                                    c.args.execution_metrics, <<>>, <<>>)

\* the transaction sequences of the miniblocks the pushes of trace t sealed, in
\* seal order, each as it was at the moment of its push; open is the sequence
\* of the miniblock that is open at the head of t
RECURSIVE SealedMiniblocks(_, _)
SealedMiniblocks(t, open) ==
    IF Len(t) = 0 THEN <<>>
    ELSE IF Head(t).op = "push_miniblock"
         THEN <<open>> \o SealedMiniblocks(Tail(t), <<>>)
    ELSE IF IsApply(Head(t))
         THEN SealedMiniblocks(Tail(t), Append(open, RecordOf(Head(t))))
    ELSE SealedMiniblocks(Tail(t), open)

\* concatenation of a sequence of sequences
RECURSIVE Concat(_)
Concat(ss) == IF Len(ss) = 0 THEN <<>> ELSE Head(ss) \o Concat(Tail(ss))

\* the sealed miniblocks of the current trace
Sealed == SealedMiniblocks(trace, <<>>)

\* some step of push_miniblock, of seal_miniblock_command
PushStep == \E params \in MiniblockParamsSet : push_miniblock(params)

SealStep == \E addr \in BridgeAddresses, pre_insert_txs \in BOOLEAN :
                seal_miniblock_command(addr, pre_insert_txs)

ExecutedStep ==
    \E inp \in ExecutedInputs :
        extend_from_executed_transaction(
            inp.tx, inp.tx_execution_result, inp.compressed_bytecodes,
            inp.tx_l1_gas_this_tx, inp.execution_metrics, inp.call_traces)

\* the last push sealed a miniblock that held transactions
LastPushFoldedTransactions ==
    /\ last_op = "push_miniblock"
    /\ Len(Sealed) > 0
    /\ Len(Sealed[Len(Sealed)]) > 0

\* ------------------------------------------------------------------------
\* Properties
\* ------------------------------------------------------------------------

\* C1: in every reachable state each pending_* accessor equals the batch
\* accumulator's value plus the open miniblock's value.
C1_PendingIsBatchPlusOpen ==
    /\ pending_executed_transactions_len =
           Len(l1_batch.executed_transactions) + Len(miniblock.executed_transactions)
    /\ pending_l1_gas_count.commit =
           l1_batch.l1_gas_count.commit + miniblock.l1_gas_count.commit
    /\ pending_l1_gas_count.prove =
           l1_batch.l1_gas_count.prove + miniblock.l1_gas_count.prove
    /\ pending_l1_gas_count.execute =
           l1_batch.l1_gas_count.execute + miniblock.l1_gas_count.execute
    /\ pending_execution_metrics.gas_used =
           l1_batch.block_execution_metrics.gas_used
               + miniblock.block_execution_metrics.gas_used
    /\ pending_execution_metrics.storage_writes =
           l1_batch.block_execution_metrics.storage_writes
               + miniblock.block_execution_metrics.storage_writes
    /\ pending_txs_encoding_size =
           l1_batch.txs_encoding_size + miniblock.txs_encoding_size

\* C1 witness: both accumulators hold transactions and non-zero totals
C1_Witness ==
    /\ Len(l1_batch.executed_transactions) > 0
    /\ Len(miniblock.executed_transactions) > 0
    /\ l1_batch.txs_encoding_size > 0
    /\ miniblock.txs_encoding_size > 0
    /\ pending_executed_transactions_len = 2

\* C2: push_miniblock leaves the four pending aggregates as they were.
C2_PushConservesPending ==
    [][PushStep =>
          /\ pending_executed_transactions_len' = pending_executed_transactions_len
          /\ pending_l1_gas_count' = pending_l1_gas_count
          /\ pending_execution_metrics' = pending_execution_metrics
          /\ pending_txs_encoding_size' = pending_txs_encoding_size]_vars

\* C2 witness: a push has folded a miniblock with transactions and totals
C2_Witness ==
    /\ LastPushFoldedTransactions
    /\ pending_executed_transactions_len > 0
    /\ pending_l1_gas_count # ZeroGasCount
    /\ pending_execution_metrics # ZeroMetrics

\* C3: after push_miniblock the open miniblock has no transactions and zero
\* totals, and the batch's transaction count grew by the count the open
\* miniblock had before the call.
C3_PushEmptiesOpenAndGrowsBatch ==
    [][PushStep =>
          /\ Len(miniblock'.executed_transactions) = 0
          /\ miniblock'.l1_gas_count = ZeroGasCount
          /\ miniblock'.block_execution_metrics = ZeroMetrics
          /\ miniblock'.txs_encoding_size = 0
          /\ Len(l1_batch'.executed_transactions) =
                 Len(l1_batch.executed_transactions)
                     + Len(miniblock.executed_transactions)]_vars

\* C3 witness: a push folded a non-empty miniblock into a non-empty batch
C3_Witness ==
    /\ LastPushFoldedTransactions
    /\ Len(Sealed) = 2
    /\ Len(Sealed[1]) > 0
    /\ Len(miniblock.executed_transactions) = 0

\* C4: extend_from_executed_transaction grows the open miniblock and
\* pending_executed_transactions_len by one and leaves the batch accumulator
\* and the fixed fields unchanged.
C4_ExtendTouchesOnlyOpenMiniblock ==
    [][ExecutedStep =>
          /\ Len(miniblock'.executed_transactions) =
                 Len(miniblock.executed_transactions) + 1
          /\ pending_executed_transactions_len' =
                 pending_executed_transactions_len + 1
          /\ l1_batch' = l1_batch
          /\ fixed' = fixed]_vars

\* C4 witness: a transaction was applied while the batch already held one
C4_Witness ==
    /\ last_op = "extend_from_executed_transaction"
    /\ Len(l1_batch.executed_transactions) > 0
    /\ Len(miniblock.executed_transactions) = 1

\* C5: seal_miniblock_command changes nothing of the manager, and only
\* push_miniblock changes the batch accumulator.
C5_SealCommandIsReadOnly ==
    [][/\ SealStep => UNCHANGED manager
       /\ l1_batch' # l1_batch => PushStep]_vars

\* C5 witness: a command was built on a manager holding transactions in both
\* accumulators
C5_Witness ==
    /\ last_op = "seal_miniblock_command"
    /\ Len(command) = 1
    /\ Len(l1_batch.executed_transactions) > 0
    /\ Len(miniblock.executed_transactions) > 0

\* C6: the command has first_tx_index = the batch's transaction count (the
\* transactions folded by the earlier pushes), the open miniblock, the batch
\* number and the caller's bridge address and pre_insert_txs flag.
C6_SealCommandContents ==
    [][\A addr \in BridgeAddresses, pre_insert_txs \in BOOLEAN :
          seal_miniblock_command(addr, pre_insert_txs) =>
              /\ Len(command') = 1
              /\ command'[1].first_tx_index = Len(l1_batch.executed_transactions)
              /\ command'[1].first_tx_index = Len(Concat(Sealed))
              /\ command'[1].miniblock = miniblock
              /\ command'[1].l1_batch_number = l1_batch.number
              /\ command'[1].l2_erc20_bridge_addr = addr
              /\ command'[1].pre_insert_txs = pre_insert_txs]_vars

\* C6 witness: a command with a non-zero first_tx_index and a non-empty
\* miniblock was returned
C6_Witness ==
    /\ last_op = "seal_miniblock_command"
    /\ Len(command) = 1
    /\ command[1].first_tx_index > 0
    /\ Len(command[1].miniblock.executed_transactions) > 0
    /\ command[1].pre_insert_txs

\* the trace of a fresh manager to which one fictive transaction was applied
OneFictiveApplied ==
    /\ Len(trace) = 2
    /\ trace[2].op = "extend_from_fictive_transaction"

\* C7: on a freshly constructed manager, after one fictive transaction,
\* seal_miniblock_command returns first_tx_index = 0 and a miniblock of
\* length 1, and a following push_miniblock makes the batch length 1.
C7_FictiveThenSealThenPush ==
    [][OneFictiveApplied =>
          /\ Len(miniblock.executed_transactions) = 1
          /\ SealStep =>
                 /\ command'[1].first_tx_index = 0
                 /\ Len(command'[1].miniblock.executed_transactions) = 1
          /\ PushStep => Len(l1_batch'.executed_transactions) = 1]_vars

\* C7 witness: one fictive transaction, a command built from it, then a push
C7_Witness ==
    /\ Len(trace) = 3
    /\ trace[2].op = "extend_from_fictive_transaction"
    /\ trace[3].op = "push_miniblock"
    /\ last_op = "push_miniblock"
    /\ Len(command) = 1
    /\ command[1].first_tx_index = 0
    /\ Len(command[1].miniblock.executed_transactions) = 1
    /\ command[1].miniblock.executed_transactions[1].transaction = <<>>
    /\ Len(l1_batch.executed_transactions) = 1

\* C8: io_cursor returns next_miniblock = open number + 1, the hash and the
\* timestamp of the open miniblock and the batch number, and changes no state.
C8_IoCursorContents ==
    [][io_cursor =>
          /\ Len(cursor') = 1
          /\ cursor'[1].next_miniblock = miniblock.number + 1
          /\ cursor'[1].prev_miniblock_hash = get_miniblock_hash(miniblock)
          /\ cursor'[1].prev_miniblock_timestamp = miniblock.timestamp
          /\ cursor'[1].l1_batch = l1_batch.number
          /\ UNCHANGED manager]_vars

\* C8 witness: the cursor was read after a push, on a miniblock with a
\* transaction
C8_Witness ==
    /\ last_op = "io_cursor"
    /\ Len(cursor) = 1
    /\ NumPushes(trace) > 0
    /\ Len(miniblock.executed_transactions) > 0
    /\ cursor[1].prev_miniblock_timestamp = miniblock.timestamp

\* C9: the batch's transaction sequence is the concatenation, in seal order,
\* of the sequences the sealed miniblocks held when they were pushed.
C9_BatchIsConcatenationOfSealed ==
    /\ Len(Sealed) = NumPushes(trace)
    /\ l1_batch.executed_transactions = Concat(Sealed)

\* C9 witness: two miniblocks with different transactions were sealed
C9_Witness ==
    /\ Len(Sealed) = 2
    /\ Len(Sealed[1]) = 1
    /\ Len(Sealed[2]) = 1
    /\ Sealed[1] # Sealed[2]
    /\ Len(l1_batch.executed_transactions) = 2

\* C10: after N applies and any number of pushes, batch count + open
\* miniblock count = N.
C10_CountIsNumberOfApplies ==
    Len(l1_batch.executed_transactions) + Len(miniblock.executed_transactions)
        = NumApplies(trace)

\* C10 witness: two applies with a push between them and one after
C10_Witness ==
    /\ NumApplies(trace) = 2
    /\ NumPushes(trace) = 2
    /\ Len(Sealed[1]) = 1
    /\ Len(Sealed[2]) = 1
    /\ last_op = "push_miniblock"

\* the storage logs an extend_from_* call of the trace carries
StorageLogsOf(c) ==
    IF c.op = "extend_from_executed_transaction"
    THEN c.args.tx_execution_result.logs.storage_logs
    ELSE c.args.result.logs.storage_logs

\* the storage logs of the extend_from_* calls of trace t, in call order
RECURSIVE AppliedLogs(_)
AppliedLogs(t) ==
    IF Len(t) = 0 THEN <<>>
    ELSE IF IsApply(Head(t)) THEN <<StorageLogsOf(Head(t))>> \o AppliedLogs(Tail(t))
    ELSE AppliedLogs(Tail(t))

\* the records of the extend_from_* calls of trace t, in call order
RECURSIVE AppliedRecords(_)
AppliedRecords(t) ==
    IF Len(t) = 0 THEN <<>>
    ELSE IF IsApply(Head(t)) THEN <<RecordOf(Head(t))>> \o AppliedRecords(Tail(t))
    ELSE AppliedRecords(Tail(t))

\* the arguments of the construction
ConstructionBatchEnv == trace[1].args.l1_batch_env

ConstructionSystemEnv == trace[1].args.system_env

\* some step of extend_from_fictive_transaction
FictiveStep ==
    \E inp \in FictiveInputs :
        extend_from_fictive_transaction(inp.result, inp.l1_gas_count,
                                        inp.execution_metrics)

\* C11: the deduplicator received exactly one apply per extend_from_* call,
\* in call order and with that call's storage logs; no push_miniblock,
\* seal_miniblock_command or io_cursor call added to it, reset it or
\* replaced it.
C11_DeduplicatorSeesEveryApplyOnce ==
    /\ Len(storage_writes_deduplicator) = NumApplies(trace)
    /\ storage_writes_deduplicator = AppliedLogs(trace)

\* C11 witness: two applies with different logs, a push between them, and a
\* command built
C11_Witness ==
    /\ Len(storage_writes_deduplicator) = 2
    /\ storage_writes_deduplicator[1] # storage_writes_deduplicator[2]
    /\ Len(Sealed) >= 1
    /\ Len(Sealed[1]) = 1
    /\ Len(miniblock.executed_transactions) = 1
    /\ Len(command) = 1

\* the command holds what the trace says its miniblock held at some moment:
\* the records applied from position first_tx_index + 1 on
CommandIsSnapshot ==
    Len(command) = 1 =>
        LET c == command[1]
            n == Len(c.miniblock.executed_transactions)
        IN  /\ c.first_tx_index + n <= Len(AppliedRecords(trace))
            /\ c.miniblock.executed_transactions =
                   SubSeq(AppliedRecords(trace), c.first_tx_index + 1,
                          c.first_tx_index + n)

\* C12: once built, a command is not changed by any later extend_from_*,
\* push_miniblock or io_cursor call: it stays the snapshot it was.
C12_CommandIsIndependentCopy ==
    [][/\ (ExecutedStep \/ FictiveStep \/ PushStep \/ io_cursor) => command' = command
       /\ CommandIsSnapshot']_vars

\* C12 witness: after the command was built its miniblock got a further
\* transaction and was then sealed
C12_Witness ==
    /\ Len(command) = 1
    /\ command[1].miniblock.number = ConstructionBatchEnv.first_l2_block.number
    /\ Len(command[1].miniblock.executed_transactions) = 1
    /\ Len(Sealed) >= 1
    /\ Len(Sealed[1]) = 2
    /\ miniblock.number > command[1].miniblock.number

\* C13: the batch identity and the protocol version are those of the
\* construction in every reachable state, and the last command and the open
\* miniblock carry them.
C13_BatchIdentityIsFixed ==
    /\ l1_batch.number = ConstructionBatchEnv.number
    /\ batch_timestamp = ConstructionBatchEnv.timestamp
    /\ fee_account_address = ConstructionBatchEnv.fee_account
    /\ batch_fee_input = ConstructionBatchEnv.fee_input
    /\ base_fee_per_gas =
           get_batch_base_fee(ConstructionBatchEnv, ConstructionSystemEnv.version)
    /\ base_system_contract_hashes =
           hashes(ConstructionSystemEnv.base_system_smart_contracts)
    /\ protocol_version = ConstructionSystemEnv.version
    /\ miniblock.protocol_version = ConstructionSystemEnv.version
    /\ Len(command) = 1 =>
           /\ command[1].l1_batch_number = ConstructionBatchEnv.number
           /\ command[1].fee_account_address = ConstructionBatchEnv.fee_account
           /\ command[1].fee_input = ConstructionBatchEnv.fee_input
           /\ command[1].base_fee_per_gas =
                  get_batch_base_fee(ConstructionBatchEnv,
                                     ConstructionSystemEnv.version)
           /\ command[1].base_system_contracts_hashes =
                  hashes(ConstructionSystemEnv.base_system_smart_contracts)
           /\ command[1].protocol_version = <<ConstructionSystemEnv.version>>
           /\ command[1].miniblock.protocol_version = ConstructionSystemEnv.version

\* C13 witness: a command built after two pushes and a transaction
C13_Witness ==
    /\ Len(command) = 1
    /\ NumPushes(trace) = 2
    /\ command[1].miniblock.number =
           ConstructionBatchEnv.first_l2_block.number + 2
    /\ Len(command[1].miniblock.executed_transactions) = 1
    /\ ConstructionBatchEnv.number = 7

\* the records of the miniblock that is open after the calls of trace t; open
\* is the sequence of the miniblock that is open at the head of t
RECURSIVE OpenMiniblock(_, _)
OpenMiniblock(t, open) ==
    IF Len(t) = 0 THEN open
    ELSE IF Head(t).op = "push_miniblock" THEN OpenMiniblock(Tail(t), <<>>)
    ELSE IF IsApply(Head(t)) THEN OpenMiniblock(Tail(t), Append(open, RecordOf(Head(t))))
    ELSE OpenMiniblock(Tail(t), open)

\* C14: push_miniblock gives the new open miniblock the closed one's number
\* + 1, the hash of the closed miniblock with all the transactions applied
\* before the push, the timestamp and virtual-block count of the params and
\* the manager's protocol version.
C14_PushChainsNewMiniblock ==
    [][\A params \in MiniblockParamsSet :
          push_miniblock(params) =>
              /\ miniblock'.number = miniblock.number + 1
              /\ miniblock'.prev_block_hash = get_miniblock_hash(miniblock)
              /\ miniblock'.prev_block_hash =
                     get_miniblock_hash(
                         [miniblock EXCEPT !.executed_transactions =
                                               OpenMiniblock(trace, <<>>)])
              /\ miniblock'.timestamp = params.timestamp
              /\ miniblock'.virtual_blocks = params.virtual_blocks
              /\ miniblock'.protocol_version = protocol_version
              /\ protocol_version' = protocol_version]_vars

\* C14 witness: the second push closed a miniblock that held a transaction
C14_Witness ==
    /\ last_op = "push_miniblock"
    /\ NumPushes(trace) = 2
    /\ Len(Sealed[2]) = 1
    /\ miniblock.prev_block_hash[1] = miniblock.number - 1
    /\ Len(miniblock.prev_block_hash[4]) = 1
    /\ miniblock.virtual_blocks = 1

\* the number of the first miniblock of the batch
FirstMiniblockNumber == ConstructionBatchEnv.first_l2_block.number

\* C15: after M pushes the open miniblock's number is the first number + M,
\* the folded miniblocks are numbered first, first + 1, ..., first + M - 1 in
\* fold order, and no number is folded twice.
C15_MiniblockNumbersIncrease ==
    /\ miniblock.number = FirstMiniblockNumber + NumPushes(trace)
    /\ Len(folded) = NumPushes(trace)
    /\ \A i \in 1..Len(folded) : folded[i] = FirstMiniblockNumber + i - 1
    /\ \A i, j \in 1..Len(folded) : i # j => folded[i] # folded[j]

\* C15 witness: two miniblocks folded, the third one open
C15_Witness ==
    /\ Len(folded) = 2
    /\ folded[1] < folded[2]
    /\ folded[2] < miniblock.number
    /\ FirstMiniblockNumber = 30

\* s is a prefix of t
IsPrefix(s, t) == Len(s) <= Len(t) /\ SubSeq(t, 1, Len(s)) = s

\* C16: in every step the batch's transaction sequence before the step is a
\* prefix of the one after it, and its count and totals do not decrease.
C16_BatchIsAppendOnly ==
    [][/\ IsPrefix(l1_batch.executed_transactions, l1_batch'.executed_transactions)
       /\ l1_batch.l1_gas_count.commit <= l1_batch'.l1_gas_count.commit
       /\ l1_batch.l1_gas_count.prove <= l1_batch'.l1_gas_count.prove
       /\ l1_batch.l1_gas_count.execute <= l1_batch'.l1_gas_count.execute
       /\ l1_batch.block_execution_metrics.gas_used
              <= l1_batch'.block_execution_metrics.gas_used
       /\ l1_batch.block_execution_metrics.storage_writes
              <= l1_batch'.block_execution_metrics.storage_writes
       /\ l1_batch.txs_encoding_size <= l1_batch'.txs_encoding_size]_vars

\* C16 witness: the batch held a record and a later push appended another
C16_Witness ==
    /\ Len(Sealed) = 2
    /\ Len(Sealed[1]) = 1
    /\ Len(Sealed[2]) = 1
    /\ l1_batch.executed_transactions[1] = Sealed[1][1]
    /\ l1_batch.executed_transactions[2] = Sealed[2][1]
    /\ l1_batch.l1_gas_count # ZeroGasCount
    /\ last_op = "io_cursor"

\* C17: push_miniblock is possible in every state; on an open miniblock
\* without transactions it advances the number by 1, chains the new miniblock
\* to the hash of the empty closed one and leaves the batch accumulator as it
\* was.
C17_EmptyPushSealsAndChains ==
    [][/\ ENABLED PushStep
       /\ (PushStep /\ Len(miniblock.executed_transactions) = 0) =>
              /\ miniblock'.number = miniblock.number + 1
              /\ miniblock'.prev_block_hash = get_miniblock_hash(miniblock)
              /\ Len(miniblock'.prev_block_hash[4]) = 0
              /\ l1_batch' = l1_batch]_vars

\* C17 witness: two pushes of empty miniblocks in a row on a fresh manager
C17_Witness ==
    /\ Len(trace) = 3
    /\ trace[2].op = "push_miniblock"
    /\ trace[3].op = "push_miniblock"
    /\ last_op = "push_miniblock"
    /\ miniblock.number = FirstMiniblockNumber + 2
    /\ Len(l1_batch.executed_transactions) = 0
    /\ l1_batch.l1_gas_count = ZeroGasCount

\* the miniblock reduced to what its hash is computed from: number,
\* timestamp, previous hash and transaction sequence
HashedPart(mb) ==
    [MiniblockUpdates_new(mb.timestamp, mb.number, mb.prev_block_hash, 0, 0)
        EXCEPT !.executed_transactions = mb.executed_transactions]

C20_FreshManagerIsEmpty ==
    Len(trace) = 1 =>
        /\ l1_batch.number = ConstructionBatchEnv.number
        /\ Len(l1_batch.executed_transactions) = 0
        /\ l1_batch.l1_gas_count = ZeroGasCount
        /\ l1_batch.block_execution_metrics = ZeroMetrics
        /\ l1_batch.txs_encoding_size = 0
        /\ Len(storage_writes_deduplicator) = 0
        /\ pending_executed_transactions_len = 0
        /\ pending_l1_gas_count = ZeroGasCount
        /\ pending_execution_metrics = ZeroMetrics
        /\ pending_txs_encoding_size = 0
        /\ Len(miniblock.executed_transactions) = 0
        /\ miniblock.number = ConstructionBatchEnv.first_l2_block.number
        /\ miniblock.timestamp = ConstructionBatchEnv.first_l2_block.timestamp
        /\ miniblock.prev_block_hash =
               ConstructionBatchEnv.first_l2_block.prev_block_hash
        /\ miniblock.virtual_blocks =
               ConstructionBatchEnv.first_l2_block.max_virtual_blocks_to_create

\* C20 witness: the state right after construction of batch 7
C20_Witness ==
    /\ last_op = "new"
    /\ Len(trace) = 1
    /\ l1_batch.number = 7
    /\ miniblock.number = 30
    /\ Len(command) = 0

\* ------------------------------------------------------------------------
\* The commands handed to persistence against the batch
\* ------------------------------------------------------------------------

\* the transactions the k-th command handed to persistence carries
IssuedTransactions(k) == issued[k].miniblock.executed_transactions

\* the sum of the lengths of the miniblocks in commands 1..k
RECURSIVE IssuedLenSum(_)
IssuedLenSum(k) ==
    IF k = 0 THEN 0 ELSE Len(IssuedTransactions(k)) + IssuedLenSum(k - 1)

\* the call of the trace that came right after the k-th command was built,
\* <<>> when none has come yet
CallAfterCommand(k) ==
    IF issued[k].calls_before < Len(trace)
    THEN <<trace[issued[k].calls_before + 1]>>
    ELSE <<>>

\* the driver has followed the documented pattern so far: every command was
\* followed immediately by push_miniblock, one command per push, and every
\* push came right after a command
FollowsPattern ==
    /\ \A k \in 1..Len(issued) :
           /\ Len(CallAfterCommand(k)) = 1
           /\ CallAfterCommand(k)[1].op = "push_miniblock"
    /\ \A j, k \in 1..Len(issued) :
           j # k => issued[j].calls_before # issued[k].calls_before
    /\ \A q \in 2..Len(trace) :
           trace[q].op = "push_miniblock"
               => \E k \in 1..Len(issued) : issued[k].calls_before = q - 1

\* the q-th call of the trace is the first push_miniblock after the k-th
\* command was built, and an extend_from_* call came between the two
ExtendedBeforePush(k, q) ==
    /\ q \in (issued[k].calls_before + 2)..Len(trace)
    /\ trace[q].op = "push_miniblock"
    /\ \A r \in (issued[k].calls_before + 1)..(q - 1) : IsApply(trace[r])

\* another command was built after the k-th, after an extend_from_* call
\* and before the push that is the q-th call of the trace
RebuiltBeforePush(k, q) ==
    \E j \in 1..Len(issued) :
        issued[j].calls_before \in (issued[k].calls_before + 1)..(q - 1)

\* command j carries the i-th transaction of the batch: i lies in the
\* command's index range and the command holds the batch's record there
Carries(j, i) ==
    LET off == i - issued[j].first_tx_index
    IN  /\ off \in 1..Len(IssuedTransactions(j))
        /\ IssuedTransactions(j)[off] = l1_batch.executed_transactions[i]

\* the batch holds a transaction that no command carries
SomeTransactionUncarried ==
    \E i \in 1..Len(l1_batch.executed_transactions) :
        \A j \in 1..Len(issued) : ~Carries(j, i)

\* under the documented pattern the commands cover the batch exactly
CommandsCoverBatch ==
    FollowsPattern =>
        /\ \A k \in 1..Len(issued) :
               issued[k].first_tx_index = IssuedLenSum(k - 1)
        /\ \A k \in 1..(Len(issued) - 1) :
               issued[k + 1].first_tx_index =
                   issued[k].first_tx_index + Len(IssuedTransactions(k))
        /\ \A j, k \in 1..Len(issued) :
               j < k => issued[j].first_tx_index + Len(IssuedTransactions(j))
                            <= issued[k].first_tx_index
        /\ Concat([k \in 1..Len(issued) |-> IssuedTransactions(k)])
               = l1_batch.executed_transactions

\* C21 as stated: when every seal command was followed immediately by its
\* push (one command per push, no extend_from_* in between), the k-th
\* command's first_tx_index is the sum of the lengths of the miniblocks in
\* commands 1..k-1, the index ranges of different commands are disjoint and
\* contiguous, and the concatenation of the commands' transaction sequences
\* is the batch accumulator's sequence; and whenever an extend_from_* call
\* came between building a command and the push, the batch holds a
\* transaction that no command carries.
C21_AnyExtendLeavesUncarried ==
    /\ CommandsCoverBatch
    /\ \A k \in 1..Len(issued) : \A q \in 2..Len(trace) :
           ExtendedBeforePush(k, q) => SomeTransactionUncarried

\* C21, amended: the commands cover the batch exactly under the documented
\* pattern, as above; and whenever an extend_from_* call came between
\* building a command and the push, and no command was built again between
\* that extend_from_* call and the push, the batch holds a transaction that
\* no command carries.
C21_CommandsCoverBatch ==
    /\ CommandsCoverBatch
    /\ \A k \in 1..Len(issued) : \A q \in 2..Len(trace) :
           (ExtendedBeforePush(k, q) /\ ~RebuiltBeforePush(k, q))
               => SomeTransactionUncarried

\* C21 witness: two commands, each followed immediately by its push and each
\* carrying a transaction, cover a batch of two transactions
C21_Witness ==
    /\ FollowsPattern
    /\ Len(issued) = 2
    /\ Len(IssuedTransactions(1)) = 1
    /\ Len(IssuedTransactions(2)) = 1
    /\ issued[2].first_tx_index = 1
    /\ Len(l1_batch.executed_transactions) = 2

\* the driver left the pattern: a command was built, a transaction was
\* applied, then the miniblock was pushed with no command built again
C21_DeviationHappens ==
    \E k \in 1..Len(issued) : \E q \in 2..Len(trace) :
        ExtendedBeforePush(k, q) /\ ~RebuiltBeforePush(k, q)

\* ------------------------------------------------------------------------
\* The cursor against the next miniblock and the seal commands
\* ------------------------------------------------------------------------

\* C22: when io_cursor was read and push_miniblock is called with no
\* mutating call in between (seal commands and further reads may come in
\* between), the new open miniblock's number is the cursor's next_miniblock
\* and its prev_block_hash is the cursor's prev_miniblock_hash; and the
\* cursor's l1_batch is the batch number of every seal command: every cursor
\* and every command carries the number the manager was constructed with, a
\* cursor agrees with the command built before it and a command with the
\* cursor read before it.
C22_CursorPredictsNextMiniblock ==
    [][/\ (Len(cursor) = 1 /\ PushStep) =>
              /\ miniblock'.number = cursor[1].next_miniblock
              /\ miniblock'.prev_block_hash = cursor[1].prev_miniblock_hash
       /\ io_cursor =>
              /\ cursor'[1].l1_batch = ConstructionBatchEnv.number
              /\ Len(command) = 1 =>
                     cursor'[1].l1_batch = command[1].l1_batch_number
       /\ SealStep =>
              /\ command'[1].l1_batch_number = ConstructionBatchEnv.number
              /\ Len(cursor) = 1 =>
                     command'[1].l1_batch_number = cursor[1].l1_batch]_vars

\* C22 witness: on the second miniblock, holding a transaction, the cursor
\* was read, then a seal command was built, and push_miniblock can be called
C22_Witness ==
    /\ Len(cursor) = 1
    /\ last_op = "seal_miniblock_command"
    /\ Len(command) = 1
    /\ NumPushes(trace) = 1
    /\ Len(miniblock.executed_transactions) > 0
    /\ cursor[1].next_miniblock = FirstMiniblockNumber + 2
    /\ ENABLED PushMiniblock

====
